---- MODULE Spec2Model ----
(***************************************************************************)
(* A model of reflector-rs (crates/arch-reflector and crates/arch-mirrors-rs): *)
(* the cached retrieval of the mirror status (get_mirror_status), the      *)
(* filter (filter_status), the rate benchmark (rate_status) and the run    *)
(* pipeline that composes them.                                            *)
(***************************************************************************)
EXTENDS Integers, Sequences, FiniteSets, TLC

VARIABLES
    pc,         \* position of run(): "start", "got_status", "filtered", "spawning",
                \* "joining", "sorted", "done", "failed"
    now,        \* the wall clock, in ticks
    cache,      \* the cache file: [exists, mtime, content]
    opts,       \* Cli / RunOptions / Filters
    impl,       \* which get_mirror_status is called: "main" (main.rs) or "mirrors" (mirrors.rs)
    getRes,     \* outcome of the last get_mirror_status call, with the inputs it saw
    prevRes,    \* outcome of the call before it
    status,     \* the Status being processed: [last_check, urls]
    fetched,    \* history: status.urls as get_mirror_status returned it
    tasks,      \* rate_status: per spawned task its position and result
    permits,    \* rate_status: permits left in the semaphore
    waiters,    \* rate_status: the semaphore's FIFO wait queue
    doneq,      \* rate_status: tasks finished and not yet returned by join_next
    rates,      \* rate_status: the HashMap<Url, f64>
    hist,       \* history counters: [filtered, spawned, maxInFlight, netCalls, calls]
    output      \* what format_output wrote: None, or Some(sequence of urls)

vars == <<pc, now, cache, opts, impl, getRes, prevRes, status, fetched, tasks,
          permits, waiters, doneq, rates, hist, output>>

cacheVars == <<now, cache, impl, getRes, prevRes>>
rateVars == <<tasks, permits, waiters, doneq, rates>>

-----------------------------------------------------------------------------
(* Option<T> *)
None == <<>>
Some(v) == <<v>>
IsSome(o) == Len(o) = 1
IsNone(o) == Len(o) = 0
Unwrap(o) == o[1]

Range(q) == {q[i] : i \in 1..Len(q)}
Max(a, b) == IF a >= b THEN a ELSE b
Min(a, b) == IF a <= b THEN a ELSE b

-----------------------------------------------------------------------------
(* Time.  SystemTime and Timestamp have sub-second resolution: the clock   *)
(* counts ticks, TicksPerSec of them in a second.                          *)
TicksPerSec == 2
Second == TicksPerSec
Hour == 3600 * Second
Epoch == 1000 * Hour

\* Duration::as_secs: whole seconds, the fraction dropped.
as_secs(d) == d \div TicksPerSec

DEFAULT_CACHE_TIMEOUT == 300
\* mirrors.rs takes cache_timeout as a u8.
U8_MAX == 255

-----------------------------------------------------------------------------
(* Mirror and Status.                                                      *)
Mirror(url, protocol, last_sync, completion_pct, delay, score, country, country_code, isos, ipv4, ipv6) ==
    [url |-> url, protocol |-> protocol, last_sync |-> last_sync,
     completion_pct |-> completion_pct, delay |-> delay, score |-> score,
     country |-> country, country_code |-> country_code,
     isos |-> isos, ipv4 |-> ipv4, ipv6 |-> ipv6]

\* completion_pct is kept in percent (1.0 is 100); last_sync in ticks.
MirrorA == Mirror("https://a/", "https", Some(Epoch - Hour), Some(100), Some(600),
                  Some(1), "France", "FR", TRUE, TRUE, TRUE)
MirrorB == Mirror("http://b/", "http", Some(Epoch - 30 * Hour), Some(50), Some(7200),
                  Some(3), "Germany", "DE", TRUE, TRUE, FALSE)
MirrorC == Mirror("rsync://c/", "rsync", None, None, None,
                  None, "", "", FALSE, TRUE, FALSE)
MirrorD == Mirror("rsync://d/", "rsync", Some(Epoch - 24 * Hour), None, None,
                  Some(2), "France", "FR", FALSE, FALSE, TRUE)
MirrorE == Mirror("https://e/", "https", Some(Epoch - 24 * Hour - 1), Some(90), Some(1800),
                  None, "Germany", "DE", TRUE, TRUE, TRUE)

Status(last_check, urls) == [last_check |-> last_check, urls |-> urls]

-----------------------------------------------------------------------------
(* serde_json.  A file or a response body is <<"json", layout, value>> when *)
(* it is the JSON text of a Status, <<"garbage">> when it is not.          *)
to_string_pretty(value) == <<"json", "pretty", value>>
Compact(value) == <<"json", "compact", value>>
Garbage == <<"garbage">>

\* serde_json::from_reader / Response::json: Ok(value) or Err.
Ok(v) == [kind |-> "ok", value |-> Some(v)]
Err == [kind |-> "err", value |-> None]
Panic == [kind |-> "panic", value |-> None]
from_json(text) == IF text[1] = "json" THEN Ok(text[3]) ELSE Err

-----------------------------------------------------------------------------
(* The cache file and the network.                                         *)
(* cache = [exists, meta_ok, mtime, content]: metadata() and modified()    *)
(* succeed when the file exists and meta_ok holds.  content is a JSON text, *)
(* Garbage, or Unreadable (File::open fails).                              *)
Unreadable == <<"unreadable">>
NetError == <<"neterr">>

CacheFile(exists, meta_ok, mtime, content) ==
    [exists |-> exists, meta_ok |-> meta_ok, mtime |-> mtime, content |-> content]

NoCacheFile == CacheFile(FALSE, TRUE, 0, Garbage)

\* cache_file_path.metadata().ok().and_then(|meta| meta.modified().ok())
mtime_of(file) == IF file.exists /\ file.meta_ok THEN Some(file.mtime) ELSE None

\* SystemTime::duration_since: Err when `earlier` is later than self.
duration_since(t, earlier) == IF t >= earlier THEN Ok(t - earlier) ELSE Err

\* Fault: the staleness test written with >= (a cache exactly cache_timeout old is
\* refetched).
is_invalid_ge(mtime, clock, cache_timeout) ==
    \/ IsNone(mtime)
    \/ LET d == duration_since(clock, Unwrap(mtime))
       IN  IF d.kind = "ok" THEN as_secs(Unwrap(d.value)) >= cache_timeout ELSE TRUE

\* Fault: is_some_and in place of is_none_or (an unreadable mtime counts as fresh).
is_invalid_some(mtime, clock, cache_timeout) ==
    /\ IsSome(mtime)
    /\ LET d == duration_since(clock, Unwrap(mtime))
       IN  IF d.kind = "ok" THEN as_secs(Unwrap(d.value)) > cache_timeout ELSE TRUE

\* main.rs: mtime.is_none_or(|time| match now.duration_since(time) { Ok(elapsed) =>
\* elapsed.as_secs() > cache_timeout, Err(_) => true })
is_invalid(mtime, clock, cache_timeout) ==
    \/ IsNone(mtime)
    \/ LET d == duration_since(clock, Unwrap(mtime))
       IN  IF d.kind = "ok" THEN as_secs(Unwrap(d.value)) > cache_timeout ELSE TRUE

\* mirrors.rs: now.duration_since(time).expect("Time went backwards") panics on Err.
\* "invalid", "valid" or "panic".
is_invalid_mirrors(mtime, clock, cache_timeout) ==
    IF IsNone(mtime) THEN "invalid"
    ELSE LET d == duration_since(clock, Unwrap(mtime))
         IN  IF d.kind = "err" THEN "panic"
             ELSE IF as_secs(Unwrap(d.value)) > cache_timeout THEN "invalid" ELSE "valid"

\* http_client.get(url).send().await?.json().await?
http_get_json(resp) == IF resp = NetError THEN Err ELSE from_json(resp)

\* fs::write(path, text): File::create, then write_all.  wr is "ok", "create_fails"
\* (the file is left as it was) or "write_fails" (the file is left truncated).
fs_write(file, text, clock, wr) ==
    CASE wr = "ok" -> [file EXCEPT !.exists = TRUE, !.mtime = clock, !.content = text]
      [] wr = "write_fails" ->
            [file EXCEPT !.exists = TRUE, !.mtime = clock, !.content = Garbage]
      [] OTHER -> file

\* What a call gives back: the Result, whether the network was asked, and the file.
CallOut(res, net, file) == [res |-> res, net |-> net, file |-> file]

\* Fault: the refetch returns what it loaded and never writes the cache file.
refetch_nowrite(file, clock, resp, wr) ==
    CallOut(http_get_json(resp), TRUE, file)

\* Fault: a failed refetch falls back to the cache file.
refetch_fallback(file, clock, resp, wr) ==
    LET loaded == http_get_json(resp)
    IN  IF loaded.kind # "ok"
        THEN CallOut(IF file.exists /\ file.content # <<"unreadable">>
                     THEN from_json(file.content) ELSE Err, TRUE, file)
        ELSE CallOut(loaded, TRUE,
                     [file EXCEPT !.exists = TRUE, !.mtime = clock,
                                  !.content = to_string_pretty(Unwrap(loaded.value))])

\* Fault: the body of the response is written to the cache file before it is
\* deserialized.
refetch_writes_raw(file, clock, resp, wr) ==
    IF resp = NetError THEN CallOut(Err, TRUE, file)
    ELSE LET written == fs_write(file, resp, clock, wr)
             loaded == from_json(resp)
         IN  IF loaded.kind = "ok" /\ wr = "ok" THEN CallOut(loaded, TRUE, written)
             ELSE CallOut(Err, TRUE, written)

\* The refetch branch (main.rs 234-237, mirrors.rs 41-44).
refetch(file, clock, resp, wr) ==
    LET loaded == http_get_json(resp)
    IN  IF loaded.kind # "ok" THEN CallOut(Err, TRUE, file)
        ELSE LET to_write == to_string_pretty(Unwrap(loaded.value))
                 written == fs_write(file, to_write, clock, wr)
             IN  IF wr = "ok" THEN CallOut(loaded, TRUE, written)
                 ELSE CallOut(Err, TRUE, written)

\* Fault: a cache file that does not deserialize yields an empty Status (unwrap_or_default).
read_cache_default(file) ==
    IF ~file.exists \/ file.content = <<"unreadable">> \/ file.content[1] # "json"
    THEN CallOut(Ok([last_check |-> 0, urls |-> <<>>]), FALSE, file)
    ELSE CallOut(from_json(file.content), FALSE, file)

\* The cache branch: serde_json::from_reader(File::open(cache_file_path)?)?
read_cache(file) ==
    IF ~file.exists \/ file.content = Unreadable THEN CallOut(Err, FALSE, file)
    ELSE CallOut(from_json(file.content), FALSE, file)

\* main.rs get_mirror_status.  path is Some(TRUE) when a cache file path was found.
get_mirror_status(path, file, clock, cache_timeout, resp, wr) ==
    IF IsSome(path)
    THEN IF is_invalid(mtime_of(file), clock, cache_timeout)
         THEN refetch(file, clock, resp, wr)
         ELSE read_cache(file)
    ELSE CallOut(http_get_json(resp), TRUE, file)

\* mirrors.rs get_mirror_status (the path is not optional there).
get_mirror_status_mirrors(file, clock, cache_timeout, resp, wr) ==
    LET v == is_invalid_mirrors(mtime_of(file), clock, cache_timeout)
    IN  CASE v = "panic" -> CallOut(Panic, FALSE, file)
          [] v = "invalid" -> refetch(file, clock, resp, wr)
          [] OTHER -> read_cache(file)

-----------------------------------------------------------------------------
(* Bounds of the model and the inputs drawn from them.                     *)
MaxCalls == 2       \* get_mirror_status calls (runs of the program) in a behaviour
MaxTicks == 2       \* clock advances in a behaviour
MaxMirrors == 3     \* mirrors in a benchmarked or filtered list
MaxThreads == 2     \* --threads
MaxFilterPasses == 2    \* applications of filter_status to one snapshot

SnapOld == Status(Epoch - 2 * Hour, <<MirrorA>>)
SnapA == Status(Epoch - Hour, <<MirrorA, MirrorB, MirrorC>>)
SnapB == Status(Epoch, <<MirrorD, MirrorE>>)

NetResponses == {Compact(SnapA), Compact(SnapB), Garbage, NetError}
WriteOutcomes == {"ok", "create_fails", "write_fails"}
\* cache_timeout: a u64 in main.rs (300 when the option is not given), a u8 in mirrors.rs.
CacheTimeouts(which) ==
    IF which = "main" THEN {0, DEFAULT_CACHE_TIMEOUT} ELSE {0, U8_MAX}

\* Ages of the cache file at the start, in ticks; -1 is a modification time in the
\* future.
CacheAges(ttl) ==
    {-1, 0, ttl * Second, ttl * Second + 1, (ttl + 1) * Second, 2 * DEFAULT_CACHE_TIMEOUT * Second}

CacheContents == {to_string_pretty(SnapOld), Garbage, Unreadable}

\* No file; a file of each age and content; a file whose metadata cannot be read (its
\* modification time is then never looked at).
InitCaches(ttl) ==
    {NoCacheFile} \cup
    {CacheFile(TRUE, TRUE, Epoch - a, c) : a \in CacheAges(ttl), c \in CacheContents} \cup
    {CacheFile(TRUE, FALSE, Epoch, c) : c \in CacheContents}

TickSteps == {1, Second, DEFAULT_CACHE_TIMEOUT * Second}

NoFilters ==
    [age |-> None, delay |-> None, country |-> {}, protocol |-> {},
     completion_percent |-> 100, isos |-> FALSE, ipv4 |-> FALSE, ipv6 |-> FALSE,
     number |-> None]

Options(threads, sort, cache_timeout, list_countries, cache_path, filters) ==
    [threads |-> threads, sort |-> sort, cache_timeout |-> cache_timeout,
     list_countries |-> list_countries, cache_path |-> cache_path, filters |-> filters]

EmptyMap == [u \in {} |-> 0]

NoCall == [res |-> [kind |-> "none", value |-> None], net |-> FALSE,
           resp |-> None, wr |-> None, pre |-> None]
Hist0 == [calls |-> 0, ticks |-> 0, filters |-> 0, probes |-> 0, outputs |-> 0]
EmptyStatus == Status(0, <<>>)

\* The variables of rate_status, filter_status and format_output before they run.
IdleRest ==
    /\ status = EmptyStatus
    /\ fetched = <<>>
    /\ tasks = <<>>
    /\ permits = 0
    /\ waiters = <<>>
    /\ doneq = <<>>
    /\ rates = EmptyMap
    /\ output = None

-----------------------------------------------------------------------------
(* get_mirror_status, called by run (main.rs 286-287) or on its own.       *)
\* The record kept of a call: its Result, whether it asked the network, the response
\* and the write outcome it met there, and the file and clock it started from.
Called(out, resp, wr) ==
    [res |-> out.res, net |-> out.net,
     resp |-> IF out.net THEN Some(resp) ELSE None,
     wr |-> IF out.net /\ IsSome(opts.cache_path) /\ http_get_json(resp).kind = "ok"
            THEN Some(wr) ELSE None,
     pre |-> Some([file |-> cache, clock |-> now])]

AfterCall(out, resp, wr) ==
    /\ cache' = out.file
    /\ getRes' = Called(out, resp, wr)
    /\ prevRes' = getRes
    /\ hist' = [hist EXCEPT !.calls = @ + 1]
    /\ IF out.res.kind = "ok"
       THEN /\ pc' = "got_status"
            /\ status' = Unwrap(out.res.value)
            /\ fetched' = Unwrap(out.res.value).urls
       ELSE /\ pc' = "failed"
            /\ UNCHANGED <<status, fetched>>
    /\ UNCHANGED <<now, opts, impl, rateVars, output>>

GetMirrorStatus(resp, wr) ==
    /\ pc = "start"
    /\ impl = "main"
    /\ AfterCall(get_mirror_status(opts.cache_path, cache, now, opts.cache_timeout,
                                   resp, wr), resp, wr)

GetMirrorStatusMirrors(resp, wr) ==
    /\ pc = "start"
    /\ impl = "mirrors"
    /\ AfterCall(get_mirror_status_mirrors(cache, now, opts.cache_timeout, resp, wr),
                 resp, wr)

\* Time passes between two calls (the age of the cache file at the first call is
\* drawn at the start).
Tick(d) ==
    /\ pc = "start"
    /\ hist.calls > 0
    /\ hist.ticks < MaxTicks
    /\ now' = now + d
    /\ hist' = [hist EXCEPT !.ticks = @ + 1]
    /\ UNCHANGED <<pc, cache, opts, impl, getRes, prevRes, status, fetched, rateVars,
                   output>>

\* The function is called again (the program is run again) with the cache file as the
\* last call left it.
NextCall ==
    /\ pc \in {"got_status", "failed"}
    /\ hist.calls < MaxCalls
    /\ pc' = "start"
    /\ status' = EmptyStatus
    /\ fetched' = <<>>
    /\ UNCHANGED <<now, cache, opts, impl, getRes, prevRes, rateVars, hist, output>>

InitCache ==
    /\ pc = "start"
    /\ now = Epoch
    /\ impl \in {"main", "mirrors"}
    /\ \E ttl \in CacheTimeouts(impl) :
          /\ cache \in InitCaches(ttl)
          /\ \E path \in {Some(TRUE)} \cup (IF impl = "main" THEN {None} ELSE {}) :
                opts = Options(0, None, ttl, FALSE, path, NoFilters)
    /\ getRes = NoCall
    /\ prevRes = NoCall
    /\ hist = Hist0
    /\ IdleRest

NextCache ==
    \/ \E resp \in NetResponses, wr \in WriteOutcomes : GetMirrorStatus(resp, wr)
    \/ \E resp \in NetResponses, wr \in WriteOutcomes : GetMirrorStatusMirrors(resp, wr)
    \/ \E d \in TickSteps : Tick(d)
    \/ NextCall

SpecCache == InitCache /\ [][NextCache]_vars

-----------------------------------------------------------------------------
(* Claims about get_mirror_status, checked under SpecCache.                *)
HasCall == getRes.res.kind # "none"
WithPath == IsSome(opts.cache_path)
Pre == Unwrap(getRes.pre)
PrevPre == Unwrap(prevRes.pre)

\* The age, in ticks, of the cache file a call started from.
AgeAt(p) == p.clock - p.file.mtime
MtimeRead(p) == p.file.exists /\ p.file.meta_ok
\* The file's modification time is within cache_timeout seconds of the clock.
WithinTimeout(p) ==
    MtimeRead(p) /\ AgeAt(p) >= 0 /\ AgeAt(p) <= opts.cache_timeout * Second
\* The file is older than cache_timeout seconds.
OlderThanTimeout(p) == MtimeRead(p) /\ AgeAt(p) > opts.cache_timeout * Second
\* The file's age in whole seconds exceeds cache_timeout.
WholeSecondsOlder(p) ==
    MtimeRead(p) /\ AgeAt(p) >= (opts.cache_timeout + 1) * Second
IsJson(text) == text[1] = "json"
Corrupt(file) == file.exists /\ ~IsJson(file.content)

\* What the refetch of a call gave, from the response and the write outcome alone.
FetchedAlone(call) ==
    LET loaded == http_get_json(Unwrap(call.resp))
    IN  IF loaded.kind = "ok" /\ call.wr = Some("ok") THEN loaded ELSE Err

\* C5: a call with a cache path whose cache file was modified within cache_timeout
\* seconds of now asks the network nothing, leaves the cache file as it was, and
\* returns the deserialized content of the file; so the network is asked only when the
\* cache is missing or stale.
C5_FreshCacheServed ==
    (HasCall /\ WithPath /\ WithinTimeout(Pre)) =>
        /\ ~getRes.net
        /\ cache = Pre.file
        /\ IsJson(Pre.file.content) => getRes.res = Ok(Pre.file.content[3])

\* A cache file exactly cache_timeout old is read back.
C5_Witness ==
    /\ HasCall /\ WithPath /\ impl = "main"
    /\ opts.cache_timeout = DEFAULT_CACHE_TIMEOUT
    /\ MtimeRead(Pre) /\ AgeAt(Pre) = DEFAULT_CACHE_TIMEOUT * Second
    /\ getRes.res = Ok(SnapOld)
    /\ ~getRes.net

\* The success path of a refetching call: the snapshot returned is the fetched one and
\* the cache file now holds its pretty-printed serialization.
RefetchedAndStored ==
    /\ getRes.net
    /\ getRes.res.kind = "ok" =>
          /\ getRes.res = http_get_json(Unwrap(getRes.resp))
          /\ cache.exists
          /\ cache.content = <<"json", "pretty", Unwrap(getRes.res.value)>>
          /\ cache.mtime = Pre.clock

\* A call that follows a refetching call within the TTL returns the same snapshot from
\* the cache, without the network.
FollowingCallServed ==
    (/\ prevRes.res.kind = "ok" /\ prevRes.net
     /\ HasCall /\ WithinTimeout(Pre)) =>
        /\ ~getRes.net
        /\ getRes.res = prevRes.res

\* C6 as stated: every cache file older than cache_timeout seconds is refetched.
C6_OlderIsRefetched ==
    (HasCall /\ WithPath) =>
        /\ OlderThanTimeout(Pre) => RefetchedAndStored
        /\ FollowingCallServed

\* C6, amended: a cache file whose age in whole seconds exceeds cache_timeout is
\* refetched; the snapshot returned is the fetched one, the cache file is overwritten
\* with its serialization, and a following call within the TTL returns that snapshot
\* from the cache without the network.
C6_WholeSecondsOlderIsRefetched ==
    (HasCall /\ WithPath) =>
        /\ WholeSecondsOlder(Pre) => RefetchedAndStored
        /\ FollowingCallServed

\* The worked scenario: a cache 10 minutes old, a TTL of 300 seconds, then a second
\* call served from the cache.
C6_Witness ==
    /\ WithPath /\ opts.cache_timeout = DEFAULT_CACHE_TIMEOUT
    /\ prevRes.res = Ok(SnapA) /\ prevRes.net
    /\ AgeAt(PrevPre) = 2 * DEFAULT_CACHE_TIMEOUT * Second
    /\ PrevPre.file.content = to_string_pretty(SnapOld)
    /\ getRes.res = Ok(SnapA) /\ ~getRes.net
    /\ Pre.file.content = to_string_pretty(SnapA)

\* C8: when the modification time of the cache file cannot be read (no file, or a
\* metadata error), the call refetches; it does not crash, and it returns an error only
\* when the fetch or the write of the cache failed.
C8_UnreadableMtimeRefetches ==
    (HasCall /\ WithPath /\ ~MtimeRead(Pre)) =>
        /\ getRes.net
        /\ getRes.res.kind # "panic"
        /\ getRes.res = FetchedAlone(getRes)

\* The metadata of an existing cache file cannot be read: the call refetches and
\* stores what it fetched.
C8_Witness ==
    /\ HasCall /\ WithPath
    /\ Pre.file.exists /\ ~Pre.file.meta_ok
    /\ getRes.res = Ok(SnapB)
    /\ cache.content = to_string_pretty(SnapB)

\* C9: a cache file that does not deserialize or cannot be opened makes the call fail,
\* without a refetch, when the cache is fresh; when the call refetches, the result is
\* decided by the fetch and the write alone, whatever the file held.
C9_CorruptCacheFatalOnlyWhenFresh ==
    (HasCall /\ WithPath /\ Corrupt(Pre.file)) =>
        /\ (MtimeRead(Pre) /\ AgeAt(Pre) >= 0 /\ as_secs(AgeAt(Pre)) <= opts.cache_timeout)
              => (getRes.res = Err /\ ~getRes.net)
        /\ getRes.net => getRes.res = FetchedAlone(getRes)
        /\ (getRes.res.kind = "err" /\ ~getRes.net) => ~WholeSecondsOlder(Pre)

\* A fresh corrupt cache made the first call fail; once stale, the second call
\* refetched and succeeded.
C9_Witness ==
    /\ WithPath
    /\ prevRes.res = Err /\ ~prevRes.net
    /\ prevRes.pre # None /\ PrevPre.file.content = Garbage
    /\ HasCall /\ Pre.file.content = Garbage
    /\ getRes.net /\ getRes.res = Ok(SnapA)

\* The call asked the network and got no Status: a network error, or a body that does
\* not deserialize.
FetchFailed(call) == call.net /\ http_get_json(Unwrap(call.resp)).kind # "ok"
Valid(file) == file.exists /\ IsJson(file.content)

\* C24 as stated: a refetch that fails leaves the cache file as it was, the file is
\* written only after a response was fetched and deserialized, and so no call that
\* fails leaves a cache file that was valid with content that is not.
C24_FailedRunKeepsCacheValid ==
    HasCall =>
        /\ FetchFailed(getRes) => cache = Pre.file
        /\ cache # Pre.file => (getRes.net /\ ~FetchFailed(getRes))
        /\ (getRes.res.kind # "ok" /\ Valid(Pre.file)) => Valid(cache)

\* C24, amended: a refetch that fails at the fetch (network error, or a response that
\* does not deserialize) leaves the cache file as it was, content and modification
\* time, and the file is written only after a response was fetched and deserialized;
\* a call that fails leaves a valid cache file invalid only when the write itself
\* failed part way.
C24_FailedFetchKeepsCache ==
    HasCall =>
        /\ FetchFailed(getRes) => cache = Pre.file
        /\ cache # Pre.file => (getRes.net /\ ~FetchFailed(getRes) /\ WithPath)
        /\ (getRes.res.kind # "ok" /\ Valid(Pre.file) /\ ~Valid(cache))
              => getRes.wr = Some("write_fails")

\* A stale cache file that deserializes, and a network error: the file is as it was.
C24_Witness ==
    /\ HasCall /\ WithPath
    /\ OlderThanTimeout(Pre)
    /\ Pre.file.content = to_string_pretty(SnapOld)
    /\ getRes.resp = Some(NetError)
    /\ getRes.res = Err
    /\ cache = Pre.file

\* C25: a cache file whose modification time is later than the clock is taken as
\* stale: the call refetches, and neither reads the file back nor aborts, in main.rs
\* and in mirrors.rs.
C25_FutureMtimeRefetches ==
    (HasCall /\ WithPath /\ MtimeRead(Pre) /\ AgeAt(Pre) < 0) =>
        /\ getRes.net
        /\ getRes.res.kind # "panic"

-----------------------------------------------------------------------------
(* rate_status (main.rs 367-442).                                          *)
(* An f64 quotient is kept as a fraction in lowest terms; a zero divisor   *)
(* gives the IEEE results: x / 0.0 is infinite for x > 0 and NaN for x = 0. *)
RECURSIVE Gcd(_, _)
Gcd(a, b) == IF b = 0 THEN a ELSE Gcd(b, a % b)

F64(num, den) == [num |-> num, den |-> den]
Infinity == F64(1, 0)
NaN == F64(0, 0)
f64_div(a, b) ==
    IF b = 0 THEN (IF a = 0 THEN NaN ELSE Infinity)
    ELSE F64(a \div Gcd(a, b), b \div Gcd(a, b))
IsFinite(r) == r.den > 0
IsNaN(r) == r = NaN

\* (content_length as f64) / elapsed.as_secs_f64(), the elapsed time given in
\* milliseconds.
rate_of(content_length, millis) == f64_div(content_length * 1000, millis)

ContentLengths == {0, 100}
ElapsedMillis == {0, 1000}
\* What makes a probe return Err: Url::join, send / bytes (timeouts included) for the
\* HTTP probe; TempDir::new, Url::join, spawn, wait, a non-zero exit, fs::metadata for
\* the rsync probe.
ProbeErrors(protocol) ==
    IF protocol = "rsync"
    THEN {"tempdir", "join", "spawn", "wait", "exit", "metadata"}
    ELSE {"join", "send", "bytes"}

\* Fault: zero threads read as "no limit".
semaphore_unbounded(threads) == IF threads = 0 THEN MaxMirrors + 1 ELSE threads

\* Semaphore::new(run_options.threads.max(1))
semaphore_new(threads) == Max(threads, 1)

\* Fault: a permit is handed out whatever the count.
has_permit_always(p) == TRUE

\* Semaphore::acquire takes a permit at once when one is left, and queues otherwise.
has_permit(p) == p > 0

Task(st, res) == [st |-> st, res |-> res]
TaskIds == 1..Len(tasks)
InFlight == Cardinality({i \in TaskIds : tasks[i].st = "probing"})

\* Fault: the join loop stops at the first failed task.
keep_joining_until_error(res) == res.kind = "ok"

\* while let Some(result) = task_set.join_next().await: the loop goes on whatever the
\* result was.
keep_joining(res) == TRUE

\* Fault: the insert throws the other entries away.
insert_alone(map, key, value) == [k \in {key} |-> value]

\* rates.insert(url, rate)
insert(map, key, value) ==
    [k \in DOMAIN map \cup {key} |-> IF k = key THEN value ELSE map[k]]

\* Fault: the probes are started whatever the sort key is.
RateStart_any_key ==
    /\ pc = "filtered"
    /\ permits' = semaphore_new(opts.threads)
    /\ tasks' = <<>>
    /\ waiters' = <<>>
    /\ doneq' = <<>>
    /\ rates' = EmptyMap
    /\ pc' = IF Len(status.urls) = 0 THEN "joining" ELSE "spawning"
    /\ UNCHANGED <<cacheVars, opts, status, fetched, hist, output>>

\* sort_status, Some(SortTypes::Rate): let rates = rate_status(...) starts here.
RateStart ==
    /\ pc = "filtered"
    /\ opts.sort = Some("rate")
    /\ permits' = semaphore_new(opts.threads)
    /\ tasks' = <<>>
    /\ waiters' = <<>>
    /\ doneq' = <<>>
    /\ rates' = EmptyMap
    /\ pc' = IF Len(status.urls) = 0 THEN "joining" ELSE "spawning"
    /\ UNCHANGED <<cacheVars, opts, status, fetched, hist, output>>

\* for mirror in &status.urls { task_set.spawn(...) }
Spawn ==
    /\ pc = "spawning"
    /\ Len(tasks) < Len(status.urls)
    /\ tasks' = Append(tasks, Task("spawned", None))
    /\ hist' = [hist EXCEPT !.probes = @ + 1]
    /\ pc' = IF Len(tasks) + 1 = Len(status.urls) THEN "joining" ELSE "spawning"
    /\ UNCHANGED <<cacheVars, opts, status, fetched, permits, waiters, doneq, rates,
                   output>>

\* let _guard = semaphore.acquire().await?
Acquire(i) ==
    /\ pc \in {"spawning", "joining"}
    /\ i \in TaskIds
    /\ tasks[i].st = "spawned"
    /\ IF has_permit(permits)
       THEN /\ permits' = permits - 1
            /\ tasks' = [tasks EXCEPT ![i].st = "probing"]
            /\ UNCHANGED waiters
       ELSE /\ waiters' = Append(waiters, i)
            /\ tasks' = [tasks EXCEPT ![i].st = "waiting"]
            /\ UNCHANGED permits
    /\ UNCHANGED <<pc, cacheVars, opts, status, fetched, doneq, rates, hist, output>>

\* Fault: a task that fails keeps its permit (the guard is not dropped on the error
\* path).
Finish_keeps_permit_on_error(i, res) ==
    /\ pc \in {"spawning", "joining"}
    /\ i \in TaskIds
    /\ tasks[i].st = "probing"
    /\ IF res.kind # "ok"
       THEN /\ tasks' = [tasks EXCEPT ![i] = Task("finished", Some(res))]
            /\ UNCHANGED <<permits, waiters>>
       ELSE IF waiters # <<>>
       THEN /\ tasks' = [tasks EXCEPT ![i] = Task("finished", Some(res)),
                                      ![Head(waiters)].st = "probing"]
            /\ waiters' = Tail(waiters)
            /\ UNCHANGED permits
       ELSE /\ tasks' = [tasks EXCEPT ![i] = Task("finished", Some(res))]
            /\ permits' = permits + 1
            /\ UNCHANGED waiters
    /\ doneq' = Append(doneq, i)
    /\ UNCHANGED <<pc, cacheVars, opts, status, fetched, rates, hist, output>>

\* Fault: the permit handed to the first waiter is also given back to the semaphore.
Finish_releases_twice(i, res) ==
    /\ pc \in {"spawning", "joining"}
    /\ i \in TaskIds
    /\ tasks[i].st = "probing"
    /\ IF waiters # <<>>
       THEN /\ tasks' = [tasks EXCEPT ![i] = Task("finished", Some(res)),
                                      ![Head(waiters)].st = "probing"]
            /\ waiters' = Tail(waiters)
            /\ permits' = permits + 1
       ELSE /\ tasks' = [tasks EXCEPT ![i] = Task("finished", Some(res))]
            /\ permits' = permits + 1
            /\ UNCHANGED waiters
    /\ doneq' = Append(doneq, i)
    /\ UNCHANGED <<pc, cacheVars, opts, status, fetched, rates, hist, output>>

\* The task ends with `res`; _guard is dropped (the permit goes to the first waiter, or
\* back to the semaphore) and the JoinSet learns of the end.
Finish(i, res) ==
    /\ pc \in {"spawning", "joining"}
    /\ i \in TaskIds
    /\ tasks[i].st = "probing"
    /\ IF waiters # <<>>
       THEN /\ tasks' = [tasks EXCEPT ![i] = Task("finished", Some(res)),
                                      ![Head(waiters)].st = "probing"]
            /\ waiters' = Tail(waiters)
            /\ UNCHANGED permits
       ELSE /\ tasks' = [tasks EXCEPT ![i] = Task("finished", Some(res))]
            /\ permits' = permits + 1
            /\ UNCHANGED waiters
    /\ doneq' = Append(doneq, i)
    /\ UNCHANGED <<pc, cacheVars, opts, status, fetched, rates, hist, output>>

\* Ok((url, rate))
ProbeOk(i, content_length, millis) ==
    Finish(i, Ok(rate_of(content_length, millis)))

\* An early return through `?`, or Err(anyhow!(exit_status)).
ProbeErr(i, cause) ==
    /\ i \in TaskIds
    /\ cause \in ProbeErrors(status.urls[i].protocol)
    /\ Finish(i, Err)

\* The task panics: join_next gives Err(JoinError).
ProbePanic(i) == Finish(i, Panic)

\* One turn of the join loop (main.rs 431-439).
JoinNext ==
    /\ pc = "joining"
    /\ doneq # <<>>
    /\ LET i == Head(doneq)
           res == Unwrap(tasks[i].res)
       IN  /\ rates' = IF res.kind = "ok"
                       THEN insert(rates, status.urls[i].url, Unwrap(res.value))
                       ELSE rates
           /\ tasks' = [tasks EXCEPT ![i].st = "joined"]
           /\ IF keep_joining(res)
              THEN doneq' = Tail(doneq) /\ pc' = pc
              ELSE doneq' = <<>> /\ pc' = "rated"
    /\ UNCHANGED <<cacheVars, opts, status, fetched, permits, waiters, hist, output>>

\* join_next gives None when every task of the set was joined: rate_status returns
\* the map.
RateReturn ==
    /\ pc = "joining"
    /\ \A i \in TaskIds : tasks[i].st = "joined"
    /\ pc' = "rated"
    /\ UNCHANGED <<cacheVars, opts, status, fetched, rateVars, hist, output>>

\* f64::partial_cmp: -1, 0, 1, or None when an operand is NaN.
partial_cmp(a, b) ==
    IF IsNaN(a) \/ IsNaN(b) THEN None
    ELSE IF ~IsFinite(a) /\ ~IsFinite(b) THEN Some(0)
    ELSE IF ~IsFinite(a) THEN Some(1)
    ELSE IF ~IsFinite(b) THEN Some(-1)
    ELSE IF a.num * b.den < b.num * a.den THEN Some(-1)
    ELSE IF a.num * b.den > b.num * a.den THEN Some(1)
    ELSE Some(0)

\* The comparator of the Rate arm (main.rs 344-352): -1 is Ordering::Less.
cmp_rate(map, a, b) ==
    IF a.url \in DOMAIN map /\ b.url \in DOMAIN map
    THEN LET c == partial_cmp(map[a.url], map[b.url])
         IN  IF IsSome(c) THEN -Unwrap(c) ELSE 0
    ELSE IF a.url \in DOMAIN map THEN -1
    ELSE IF b.url \in DOMAIN map THEN 1
    ELSE 0

\* The comparator is a total order on the elements of q: slice::sort_by promises a
\* sorted result only then.
is_total_order(map, q) ==
    \A a, b, c \in Range(q) :
        /\ cmp_rate(map, a, b) = -cmp_rate(map, b, a)
        /\ (cmp_rate(map, a, b) <= 0 /\ cmp_rate(map, b, c) <= 0) => cmp_rate(map, a, c) <= 0

\* The orders a slice can be left in: the same elements, each as often.
Reorderings(q) ==
    {[i \in 1..Len(q) |-> q[f[i]]] :
        f \in {g \in [1..Len(q) -> 1..Len(q)] : \A i, j \in 1..Len(q) : i # j => g[i] # g[j]}}

\* slice::sort_by with the Rate comparator, as a stable insertion sort: an element
\* moves left past the elements that compare Greater than it.
RECURSIVE insert_by_rate(_, _, _)
insert_by_rate(map, q, x) ==
    IF q = <<>> THEN <<x>>
    ELSE IF cmp_rate(map, q[Len(q)], x) > 0
    THEN insert_by_rate(map, SubSeq(q, 1, Len(q) - 1), x) \o <<q[Len(q)]>>
    ELSE q \o <<x>>

RECURSIVE sort_by_rate(_, _)
sort_by_rate(map, q) ==
    IF q = <<>> THEN <<>>
    ELSE insert_by_rate(map, sort_by_rate(map, SubSeq(q, 1, Len(q) - 1)), q[Len(q)])

\* The Rate arm after rate_status has returned: status.urls.sort_by(...).  With a
\* comparator that is no total order (a NaN rate among others) the order of the
\* result is unspecified, and the sort may panic.
SortByRate ==
    /\ pc = "rated"
    /\ IF is_total_order(rates, status.urls)
       THEN /\ status' = [status EXCEPT !.urls = sort_by_rate(rates, status.urls)]
            /\ pc' = "sorted"
       ELSE \/ /\ \E q \in Reorderings(status.urls) : status' = [status EXCEPT !.urls = q]
               /\ pc' = "sorted"
            \/ /\ pc' = "failed"
               /\ UNCHANGED status
    /\ UNCHANGED <<cacheVars, opts, fetched, rateVars, hist, output>>

\* The lists rate_status is given: the first n mirrors of MirrorA, MirrorD, MirrorA,
\* MirrorD, ...: one mirror for the Http | Https arm, one for the Rsync arm, and from
\* three mirrors on a url that the list holds twice.
RateList(n) == [i \in 1..n |-> IF i % 2 = 1 THEN MirrorA ELSE MirrorD]
RateLists == {RateList(n) : n \in 0..MaxMirrors}

RECURSIVE SeqsUpTo(_, _)
SeqsUpTo(S, n) ==
    IF n = 0 THEN {<<>>}
    ELSE LET shorter == SeqsUpTo(S, n - 1)
         IN  shorter \cup {Append(q, x) : q \in {r \in shorter : Len(r) = n - 1}, x \in S}

InitRate ==
    /\ pc = "filtered"
    /\ now = Epoch
    /\ cache = NoCacheFile
    /\ impl = "main"
    /\ \E t \in 0..MaxThreads :
          opts = Options(t, Some("rate"), DEFAULT_CACHE_TIMEOUT, FALSE, Some(TRUE), NoFilters)
    /\ getRes = NoCall
    /\ prevRes = NoCall
    /\ \E urls \in RateLists :
          /\ status = Status(Epoch, urls)
          /\ fetched = urls
    /\ tasks = <<>>
    /\ permits = 0
    /\ waiters = <<>>
    /\ doneq = <<>>
    /\ rates = EmptyMap
    /\ hist = Hist0
    /\ output = None

NextRate ==
    \/ RateStart
    \/ Spawn
    \/ \E i \in TaskIds : Acquire(i)
    \/ \E i \in TaskIds, n \in ContentLengths, ms \in ElapsedMillis : ProbeOk(i, n, ms)
    \/ \E i \in TaskIds, cause \in {"tempdir", "join", "spawn", "wait", "exit", "metadata",
                                    "send", "bytes"} : ProbeErr(i, cause)
    \/ \E i \in TaskIds : ProbePanic(i)
    \/ JoinNext
    \/ RateReturn

SpecRate == InitRate /\ [][NextRate]_vars

\* rate_status with one measurement for the probes that succeed: what a probe
\* measures plays no part in which steps can follow.
NextRateFair ==
    \/ RateStart
    \/ Spawn
    \/ \E i \in TaskIds : Acquire(i)
    \/ \E i \in TaskIds : ProbeOk(i, 100, 1000)
    \/ \E i \in TaskIds, cause \in {"tempdir", "join", "spawn", "wait", "exit", "metadata",
                                    "send", "bytes"} : ProbeErr(i, cause)
    \/ \E i \in TaskIds : ProbePanic(i)
    \/ JoinNext
    \/ RateReturn

\* The runtime keeps polling whatever task can run, and a probe that has started
\* comes to an end: a step of rate_status that stays possible is taken.
FairSpecRate == InitRate /\ [][NextRateFair]_vars /\ WF_vars(NextRateFair)

-----------------------------------------------------------------------------
(* Claims about rate_status, checked under SpecRate.                       *)
Rating == pc \in {"spawning", "joining"}
Ended(i) == tasks[i].st \in {"finished", "joined"}
Succeeded(i) == Ended(i) /\ Unwrap(tasks[i].res).kind = "ok"
Failed(i) == Ended(i) /\ Unwrap(tasks[i].res).kind # "ok"
UrlOf(i) == status.urls[i].url

\* C1: with a limit of L >= 1 threads, at most L probes hold a permit and have not
\* ended, in every interleaving.
C1_AtMostLimitInFlight ==
    opts.threads >= 1 => InFlight <= opts.threads

\* Two probes run under a limit of two while a third waits for a permit.
C1_Witness ==
    /\ opts.threads = 2
    /\ InFlight = 2
    /\ waiters # <<>>

\* C2 as stated: with a limit of zero no probe waits for another probe to end.
C2_ZeroIsUnbounded ==
    opts.threads = 0 => waiters = <<>>

\* C2, amended: with a limit of zero the semaphore holds one permit: at most one probe
\* is in flight and the others wait for it to end.
C2_ZeroIsOneAtATime ==
    (opts.threads = 0 /\ Rating) =>
        /\ InFlight <= 1
        /\ permits + InFlight = 1

\* With zero threads one probe runs and two wait.
C2_Witness ==
    /\ opts.threads = 0
    /\ InFlight = 1
    /\ Len(waiters) = 2

\* rate_status has returned: every mirror had its task, and every task was joined.
AllJoined ==
    /\ Len(tasks) = Len(status.urls)
    /\ \A i \in TaskIds : tasks[i].st = "joined"

\* C3 as stated: when rate_status returns, every probe has ended and was collected, and
\* a mirror has an entry in the map exactly when its probe succeeded.
C3_EntryIffProbeSucceeded ==
    pc = "rated" =>
        /\ AllJoined
        /\ \A i \in TaskIds : (UrlOf(i) \in DOMAIN rates) <=> Succeeded(i)

\* C3, amended: when rate_status returns (it returns no error), every probe has ended
\* and was collected whatever the other probes did, and the keys of the map are exactly
\* the urls of the mirrors whose probe succeeded: a mirror whose probe failed has an
\* entry only when a mirror of the same url succeeded.
C3_FailuresAreIsolated ==
    /\ pc # "failed"
    /\ pc = "rated" =>
          /\ AllJoined
          /\ DOMAIN rates = {UrlOf(i) : i \in {j \in TaskIds : Succeeded(j)}}
          /\ \A i \in TaskIds :
                (Failed(i) /\ UrlOf(i) \in DOMAIN rates) =>
                    \E j \in TaskIds : Succeeded(j) /\ UrlOf(j) = UrlOf(i)

\* One probe returned an error, one panicked, and the probe of another mirror
\* succeeded and is in the map.
C3_Witness ==
    /\ pc = "rated"
    /\ \E i, j, k \in TaskIds :
          /\ Unwrap(tasks[i].res) = Err
          /\ Unwrap(tasks[j].res) = Panic
          /\ Succeeded(k)
          /\ UrlOf(k) \notin {UrlOf(i), UrlOf(j)}
          /\ DOMAIN rates = {UrlOf(k)}

\* C20: under fair scheduling, with probes that all come to an end, every spawned probe
\* gets a permit and ends, and rate_status returns with every task collected, for
\* every number of mirrors and every limit, failed probes included.
C20_RateStatusReturns ==
    /\ <>(pc = "rated" /\ AllJoined)
    /\ \A i \in 1..MaxMirrors : (i \in TaskIds) ~> (i \in TaskIds /\ Ended(i))

\* rate_status has returned under a limit of one, after a probe that failed, one that
\* panicked and one that succeeded.
C20_Witness ==
    /\ pc = "rated"
    /\ AllJoined
    /\ opts.threads = 1
    /\ Len(tasks) = 3
    /\ \E i, j, k \in TaskIds :
          /\ Unwrap(tasks[i].res) = Err
          /\ Unwrap(tasks[j].res) = Panic
          /\ Succeeded(k)

\* C21: a task does its probe work holding a permit it took first, and gives the permit
\* back however it ends: the permits left and the permits held always add up to the
\* permits the semaphore was made with, a task that has a result holds none, and when
\* rate_status has returned every permit is back.
C21_PermitsConserved ==
    (Rating \/ pc = "rated") =>
        /\ permits + InFlight = semaphore_new(opts.threads)
        /\ permits <= semaphore_new(opts.threads)
        /\ \A i \in TaskIds :
              /\ IsSome(tasks[i].res) <=> Ended(i)
              /\ tasks[i].st = "waiting" <=> i \in Range(waiters)
        /\ waiters # <<>> => permits = 0
        /\ pc = "rated" => (InFlight = 0 /\ permits = semaphore_new(opts.threads))

\* rate_status has returned under a limit of two, after three probes of which one
\* failed and one panicked: both permits are back.
C21_Witness ==
    /\ pc = "rated"
    /\ opts.threads = 2
    /\ permits = 2
    /\ Len(tasks) = 3
    /\ \E i, j \in TaskIds : Unwrap(tasks[i].res) = Err /\ Unwrap(tasks[j].res) = Panic

\* The map that inserting the results of the successful probes in list order gives.
RECURSIVE InListOrder(_)
InListOrder(n) ==
    IF n = 0 THEN EmptyMap
    ELSE IF Succeeded(n)
    THEN insert(InListOrder(n - 1), UrlOf(n), Unwrap(Unwrap(tasks[n].res).value))
    ELSE InListOrder(n - 1)

\* The rates the successful probes of a url measured.
Measured(u) ==
    {Unwrap(Unwrap(tasks[i].res).value) : i \in {j \in TaskIds : Succeeded(j) /\ UrlOf(j) = u}}

\* C22 as stated: the map returned depends on the list and on what each probe gave
\* alone, not on the order the probes ended in: it is the map that collecting them in
\* list order gives.
C22_MapIndependentOfOrder ==
    pc = "rated" => rates = InListOrder(Len(tasks))

\* C22, amended: the keys of the map returned are the urls of the successful probes,
\* and the entry of a url is a rate one of its successful probes measured: the map
\* depends on what the probes gave alone as long as the successful probes of one url
\* (a url the list holds twice) measured the same rate.
C22_MapOfMeasuredRates ==
    pc = "rated" =>
        /\ DOMAIN rates = {UrlOf(i) : i \in {j \in TaskIds : Succeeded(j)}}
        /\ \A u \in DOMAIN rates : rates[u] \in Measured(u)
        /\ (\A u \in DOMAIN rates : Cardinality(Measured(u)) = 1) =>
              rates = InListOrder(Len(tasks))

\* Three probes succeeded, the two of the url the list holds twice with the same
\* rate, the third with another: the map is the one of the list order.
C22_Witness ==
    /\ pc = "rated"
    /\ Len(tasks) = 3
    /\ \A i \in TaskIds : Succeeded(i)
    /\ UrlOf(1) = UrlOf(3)
    /\ tasks[1].res = tasks[3].res
    /\ tasks[1].res # tasks[2].res
    /\ rates = InListOrder(3)

\* C4: every rate in the map is a strictly positive finite number.
C4_RatesPositiveFinite ==
    \A u \in DOMAIN rates : IsFinite(rates[u]) /\ rates[u].num > 0

-----------------------------------------------------------------------------
(* filter_status (main.rs 446-517).                                        *)
(* --age and --delay are f32 hours; the model keeps them in half hours     *)
(* (1 is 0.5 h), completion in percent.                                    *)

\* `as i64` of an f32 given in halves: the fraction is dropped, towards zero.
f32_halves_as_i64(h) == IF h >= 0 THEN h \div 2 ELSE -((-h) \div 2)

\* filters.age.and_then(|age| Span::new().try_hours(age as i64).ok()), in hours.
max_age_of(age) == IF IsSome(age) THEN Some(f32_halves_as_i64(Unwrap(age))) ELSE None

\* (delay * 3600.0) as u32, in seconds: a negative product saturates to 0.
max_delay_of(delay) == Max(0, Unwrap(delay) * 1800)

\* Fault: the country test rejects only a mirror that fails name and code and
\* protocol together.
retain_country_or_protocol(filters, clock, mirror) ==
    /\ IsSome(mirror.last_sync)
    /\ LET max_age == max_age_of(filters.age)
       IN  ~(IsSome(max_age) /\ Unwrap(max_age) > 0
             /\ Unwrap(mirror.last_sync) + Unwrap(max_age) * Hour < clock)
    /\ ~(IsSome(mirror.completion_pct)
         /\ Unwrap(mirror.completion_pct) < filters.completion_percent)
    /\ ~(/\ filters.country # {} /\ mirror.country \notin filters.country
         /\ mirror.country_code \notin filters.country
         /\ filters.protocol # {} /\ mirror.protocol \notin filters.protocol)
    /\ ~(IsSome(filters.delay)
         /\ (IsNone(mirror.delay) \/ Unwrap(mirror.delay) > max_delay_of(filters.delay)))
    /\ ~(filters.isos /\ ~mirror.isos)
    /\ ~(filters.ipv4 /\ ~mirror.ipv4)
    /\ ~(filters.ipv6 /\ ~mirror.ipv6)

\* The closure given to status.urls.retain: FALSE at the first test that fails.
retain(filters, clock, mirror) ==
    LET max_age == max_age_of(filters.age)
    IN  IF IsNone(mirror.last_sync) THEN FALSE
        ELSE IF /\ IsSome(max_age)
                /\ Unwrap(max_age) > 0
                /\ Unwrap(mirror.last_sync) + Unwrap(max_age) * Hour < clock
        THEN FALSE
        ELSE IF /\ IsSome(mirror.completion_pct)
                /\ Unwrap(mirror.completion_pct) < filters.completion_percent
        THEN FALSE
        ELSE IF /\ filters.country # {}
                /\ mirror.country \notin filters.country
                /\ mirror.country_code \notin filters.country
        THEN FALSE
        ELSE IF filters.protocol # {} /\ mirror.protocol \notin filters.protocol
        THEN FALSE
        ELSE IF /\ IsSome(filters.delay)
                /\ \/ IsNone(mirror.delay)
                   \/ Unwrap(mirror.delay) > max_delay_of(filters.delay)
        THEN FALSE
        ELSE IF filters.isos /\ ~mirror.isos THEN FALSE
        ELSE IF filters.ipv4 /\ ~mirror.ipv4 THEN FALSE
        ELSE IF filters.ipv6 /\ ~mirror.ipv6 THEN FALSE
        ELSE TRUE

\* Fault: the kept elements come out in reverse order.
RECURSIVE vec_retain_reversed(_, _, _)
vec_retain_reversed(urls, filters, clock) ==
    IF urls = <<>> THEN <<>>
    ELSE LET rest == vec_retain_reversed(Tail(urls), filters, clock)
         IN  IF retain(filters, clock, Head(urls)) THEN rest \o <<Head(urls)>> ELSE rest

\* Fault: every pass also drops the first element it would keep.
RECURSIVE vec_retain_all(_, _, _)
vec_retain_all(urls, filters, clock) ==
    IF urls = <<>> THEN <<>>
    ELSE LET rest == vec_retain_all(Tail(urls), filters, clock)
         IN  IF retain(filters, clock, Head(urls)) THEN <<Head(urls)>> \o rest ELSE rest
vec_retain_skip_first(urls, filters, clock) ==
    LET kept == vec_retain_all(urls, filters, clock)
    IN  IF kept = <<>> THEN <<>> ELSE Tail(kept)

\* Vec::retain: the elements the closure keeps, in their order.
RECURSIVE vec_retain(_, _, _)
vec_retain(urls, filters, clock) ==
    IF urls = <<>> THEN <<>>
    ELSE LET rest == vec_retain(Tail(urls), filters, clock)
         IN  IF retain(filters, clock, Head(urls)) THEN <<Head(urls)>> \o rest ELSE rest

\* filter_status(&options.run.filters, &mut status) (main.rs 294); the clock is read
\* once, at main.rs 447.
FilterStatus ==
    /\ pc = "got_status"
    /\ ~opts.list_countries
    /\ status' = [status EXCEPT !.urls = vec_retain(status.urls, opts.filters, now)]
    /\ hist' = [hist EXCEPT !.filters = @ + 1]
    /\ pc' = "filtered"
    /\ UNCHANGED <<cacheVars, opts, fetched, rateVars, output>>

\* filter_status applied once more to the snapshot it has filtered, with the same
\* filters and at the same time.
FilterStatusAgain ==
    /\ pc = "filtered"
    /\ hist.filters \in 1..(MaxFilterPasses - 1)
    /\ status' = [status EXCEPT !.urls = vec_retain(status.urls, opts.filters, now)]
    /\ hist' = [hist EXCEPT !.filters = @ + 1]
    /\ UNCHANGED <<pc, cacheVars, opts, fetched, rateVars, output>>

\* Filters as the command line gives them.  Without options completion_percent is 100.
Lenient == [NoFilters EXCEPT !.completion_percent = 0]
FilterSets ==
    {NoFilters, Lenient,
     [NoFilters EXCEPT !.age = Some(48), !.completion_percent = 90],
     [Lenient EXCEPT !.age = Some(48)],
     [Lenient EXCEPT !.age = Some(1)],
     [Lenient EXCEPT !.age = Some(0)],
     [Lenient EXCEPT !.age = Some(-48)],
     [Lenient EXCEPT !.country = {"France"}],
     [Lenient EXCEPT !.country = {"fr", "Germany"}],
     [Lenient EXCEPT !.country = {"france"}],
     [Lenient EXCEPT !.country = {"DE"}, !.protocol = {"https"}],
     [Lenient EXCEPT !.protocol = {"rsync", "http"}],
     [Lenient EXCEPT !.delay = Some(1)],
     [Lenient EXCEPT !.delay = Some(-1)],
     [Lenient EXCEPT !.isos = TRUE],
     [Lenient EXCEPT !.ipv4 = TRUE, !.age = Some(60)],
     [Lenient EXCEPT !.ipv6 = TRUE, !.completion_percent = 90]}

FilterPool == {MirrorA, MirrorB, MirrorC, MirrorD, MirrorE}

InitFilter ==
    /\ pc = "got_status"
    /\ now \in {Epoch, Epoch + 1}
    /\ cache = NoCacheFile
    /\ impl = "main"
    /\ \E f \in FilterSets :
          opts = Options(0, None, DEFAULT_CACHE_TIMEOUT, FALSE, Some(TRUE), f)
    /\ getRes = NoCall
    /\ prevRes = NoCall
    /\ \E urls \in SeqsUpTo(FilterPool, MaxMirrors) :
          /\ status = Status(Epoch, urls)
          /\ fetched = urls
    /\ tasks = <<>>
    /\ permits = 0
    /\ waiters = <<>>
    /\ doneq = <<>>
    /\ rates = EmptyMap
    /\ hist = Hist0
    /\ output = None

NextFilter ==
    \/ FilterStatus
    \/ FilterStatusAgain

SpecFilter == InitFilter /\ [][NextFilter]_vars

-----------------------------------------------------------------------------
(* Claims about filter_status, checked under SpecFilter.                   *)
Filtered == pc = "filtered" /\ hist.filters = 1

\* The predicates of the filter, each alone: TRUE when it lets the mirror pass.
Synced(m) == IsSome(m.last_sync)
AgeActive(f) == IsSome(f.age) /\ f32_halves_as_i64(Unwrap(f.age)) > 0
AgePasses(f, clock, m) ==
    (AgeActive(f) /\ Synced(m)) =>
        clock - Unwrap(m.last_sync) <= f32_halves_as_i64(Unwrap(f.age)) * Hour
CompletionPasses(f, m) ==
    IsSome(m.completion_pct) => Unwrap(m.completion_pct) >= f.completion_percent
CountryPasses(f, m) ==
    f.country # {} => (m.country \in f.country \/ m.country_code \in f.country)
ProtocolPasses(f, m) == f.protocol # {} => m.protocol \in f.protocol
DelayPasses(f, m) ==
    IsSome(f.delay) => (IsSome(m.delay) /\ Unwrap(m.delay) <= Max(0, Unwrap(f.delay) * 1800))
CapabilitiesPass(f, m) ==
    /\ f.isos => m.isos
    /\ f.ipv4 => m.ipv4
    /\ f.ipv6 => m.ipv6
PassesAll(f, clock, m) ==
    /\ Synced(m)
    /\ AgePasses(f, clock, m)
    /\ CompletionPasses(f, m)
    /\ CountryPasses(f, m)
    /\ ProtocolPasses(f, m)
    /\ DelayPasses(f, m)
    /\ CapabilitiesPass(f, m)

\* C10: filter_status keeps a mirror exactly when it passes every active predicate; a
\* mirror with no last_sync is dropped under every set of filters; in the worked
\* scenario (A, B, C with --age 24 and a minimum completion of 90) only A is left.
C10_RetainedIffAllPass ==
    Filtered =>
        /\ \A i \in 1..Len(fetched) :
              (fetched[i] \in Range(status.urls)) <=> PassesAll(opts.filters, now, fetched[i])
        /\ \A m \in Range(status.urls) : Synced(m)
        /\ (/\ fetched = <<MirrorA, MirrorB, MirrorC>>
            /\ opts.filters.age = Some(48)
            /\ opts.filters.completion_percent = 90) => status.urls = <<MirrorA>>

\* The worked scenario, filtered.
C10_Witness ==
    /\ Filtered
    /\ fetched = <<MirrorA, MirrorB, MirrorC>>
    /\ opts.filters = [NoFilters EXCEPT !.age = Some(48), !.completion_percent = 90]
    /\ status.urls = <<MirrorA>>

\* Every predicate of the filter but the age one lets the mirror pass.
PassesAllButAge(f, m) ==
    /\ Synced(m)
    /\ CompletionPasses(f, m)
    /\ CountryPasses(f, m)
    /\ ProtocolPasses(f, m)
    /\ DelayPasses(f, m)
    /\ CapabilitiesPass(f, m)

\* --age as given, an f32 of hours kept in half hours, as a duration.
AgeGiven(f) == (Unwrap(f.age) * Hour) \div 2

\* C11: with --age n, n > 0 an integer or a decimal number of hours, a synced mirror is
\* dropped when now - last_sync exceeds n hours and is not dropped for its age
\* otherwise; with n <= 0 no mirror is dropped for its age.
C11_MaxAgeInDecimalHours ==
    (Filtered /\ IsSome(opts.filters.age)) =>
        \A i \in 1..Len(fetched) :
            LET m == fetched[i]
                f == opts.filters
                tooOld == Unwrap(f.age) > 0 /\ now - Unwrap(m.last_sync) > AgeGiven(f)
            IN  Synced(m) =>
                    /\ tooOld => m \notin Range(status.urls)
                    /\ (~tooOld /\ PassesAllButAge(f, m)) => m \in Range(status.urls)

\* The strings of the model with their case folded.
to_lowercase(str) ==
    CASE str = "France" -> "france"
      [] str = "FR" -> "fr"
      [] str = "Germany" -> "germany"
      [] str = "DE" -> "de"
      [] OTHER -> str

\* The country name or the country code is an entry of --country, the case ignored.
CountryMatchesIgnoringCase(f, m) ==
    \E entry \in f.country :
        to_lowercase(entry) \in {to_lowercase(m.country), to_lowercase(m.country_code)}

PassesAllButCountry(f, clock, m) ==
    /\ Synced(m)
    /\ AgePasses(f, clock, m)
    /\ CompletionPasses(f, m)
    /\ ProtocolPasses(f, m)
    /\ DelayPasses(f, m)
    /\ CapabilitiesPass(f, m)

\* C12: with a non-empty --country list a mirror gets past the country test exactly
\* when its country name or code is an entry of the list, the case ignored ("fr" and
\* "france" keep a mirror of France / FR); with an empty list every mirror gets past.
C12_CountryMatchIgnoresCase ==
    Filtered =>
        \A i \in 1..Len(fetched) :
            LET m == fetched[i]
                f == opts.filters
            IN  PassesAllButCountry(f, now, m) =>
                    (m \in Range(status.urls)
                        <=> (f.country = {} \/ CountryMatchesIgnoringCase(f, m)))

\* s is t with some elements left out, the others in their order.
RECURSIVE IsSubsequence(_, _)
IsSubsequence(s, t) ==
    IF s = <<>> THEN TRUE
    ELSE IF t = <<>> THEN FALSE
    ELSE IF Head(s) = Head(t) THEN IsSubsequence(Tail(s), Tail(t))
    ELSE IsSubsequence(s, Tail(t))

\* C13: filter_status never reorders or duplicates mirrors: the mirrors it leaves are
\* a subsequence of the mirrors it was given, and the rest of the snapshot is as it was.
C13_FilterKeepsOrder ==
    Filtered =>
        /\ IsSubsequence(status.urls, fetched)
        /\ status = [Status(Epoch, fetched) EXCEPT !.urls = status.urls]

\* A mirror between two survivors is dropped; the survivors keep their order.
C13_Witness ==
    /\ Filtered
    /\ fetched = <<MirrorD, MirrorC, MirrorA>>
    /\ status.urls = <<MirrorD, MirrorA>>

\* C14: filter_status is idempotent: applied again with the same filters and at the
\* same time to the snapshot it has filtered, it removes nothing.
C14_FilterIdempotent ==
    (pc = "filtered" /\ hist.filters = MaxFilterPasses) =>
        status.urls = vec_retain(fetched, opts.filters, now)

\* The second pass ran on a snapshot from which the first had dropped a mirror and
\* kept two.
C14_Witness ==
    /\ pc = "filtered"
    /\ hist.filters = MaxFilterPasses
    /\ Len(fetched) = 3
    /\ Len(status.urls) = 2

-----------------------------------------------------------------------------
(* sort_status, format_output and run (main.rs 279-364).                   *)

\* if options.list_countries { list_countries(&status); return Ok(()); }
ListCountries ==
    /\ pc = "got_status"
    /\ opts.list_countries
    /\ pc' = "done"
    /\ UNCHANGED <<cacheVars, opts, status, fetched, rateVars, hist, output>>

\* sort_status with no sort key: None => {}
SortNone ==
    /\ pc = "filtered"
    /\ opts.sort = None
    /\ pc' = "sorted"
    /\ UNCHANGED <<cacheVars, opts, status, fetched, rateVars, hist, output>>

\* Ord for Option<T>: None is less than every Some; -1 is Ordering::Less.
cmp_option(a, b) ==
    IF IsNone(a) /\ IsNone(b) THEN 0
    ELSE IF IsNone(a) THEN -1
    ELSE IF IsNone(b) THEN 1
    ELSE IF Unwrap(a) < Unwrap(b) THEN -1
    ELSE IF Unwrap(a) > Unwrap(b) THEN 1
    ELSE 0

\* String::cmp compares bytes: the country names of the model by their place in
\* that order.
country_rank(str) ==
    CASE str = "" -> 0
      [] str = "France" -> 1
      [] str = "Germany" -> 2

\* The comparators of the arms of sort_status other than Rate.  sort_by_key(f) compares
\* f(a) with f(b), and Reverse swaps the two sides.  A score read from JSON is
\* never NaN, so partial_cmp is never None there.
compare(key, a, b) ==
    CASE key = "age" -> cmp_option(a.last_sync, b.last_sync)
      [] key = "country" -> cmp_option(Some(country_rank(a.country)), Some(country_rank(b.country)))
      [] key = "score" -> -cmp_option(a.score, b.score)
      [] key = "delay" -> cmp_option(b.delay, a.delay)

\* slice::sort_by and sort_by_key are stable: as an insertion sort, an element moves
\* left past the elements that compare Greater than it.
RECURSIVE insert_by(_, _, _)
insert_by(key, q, x) ==
    IF q = <<>> THEN <<x>>
    ELSE IF compare(key, q[Len(q)], x) > 0
    THEN insert_by(key, SubSeq(q, 1, Len(q) - 1), x) \o <<q[Len(q)]>>
    ELSE q \o <<x>>

RECURSIVE sort_by(_, _)
sort_by(key, q) ==
    IF q = <<>> THEN <<>>
    ELSE insert_by(key, sort_by(key, SubSeq(q, 1, Len(q) - 1)), q[Len(q)])

\* One arm of sort_status other than Rate and None.
SortBy(key) ==
    /\ pc = "filtered"
    /\ opts.sort = Some(key)
    /\ status' = [status EXCEPT !.urls = sort_by(key, status.urls)]
    /\ pc' = "sorted"
    /\ UNCHANGED <<cacheVars, opts, fetched, rateVars, hist, output>>

\* Some(SortTypes::Age) => status.urls.sort_by_key(|mir| mir.last_sync)
SortByAge == SortBy("age")
\* Some(SortTypes::Country) => status.urls.sort_by(|a, b| a.country.cmp(&b.country))
SortByCountry == SortBy("country")
\* Some(SortTypes::Score) => status.urls.sort_by(... partial_cmp ... .reverse())
SortByScore == SortBy("score")
\* Some(SortTypes::Delay) => status.urls.sort_by_key(|mir| Reverse(mir.delay))
SortByDelay == SortBy("delay")

\* The lists sort_status is given: filter_status has dropped every mirror without a
\* last_sync.
SortPool == {MirrorA, MirrorB, MirrorD, MirrorE}

\* The maps rate_status can return for a list: an entry for any of its urls, of any
\* rate a probe can measure.
RateValues == {rate_of(n, ms) : n \in ContentLengths, ms \in ElapsedMillis}
RateMaps(q) == UNION {[K -> RateValues] : K \in SUBSET {m.url : m \in Range(q)}}

\* The tasks of a rate_status that has returned `map`.
JoinedTasks(map, q) ==
    [i \in 1..Len(q) |->
        Task("joined", Some(IF q[i].url \in DOMAIN map THEN Ok(map[q[i].url]) ELSE Err))]

SortKeys == {"age", "country", "score", "delay"}

\* sort_status is entered with a filtered snapshot; its Rate arm is taken up where
\* rate_status has returned.
InitSort ==
    /\ now = Epoch
    /\ cache = NoCacheFile
    /\ impl = "main"
    /\ getRes = NoCall
    /\ prevRes = NoCall
    /\ waiters = <<>>
    /\ doneq = <<>>
    /\ output = None
    /\ \E urls \in SeqsUpTo(SortPool, MaxMirrors) :
          /\ status = Status(Epoch, urls)
          /\ fetched = urls
          /\ \/ /\ pc = "filtered"
                /\ \E key \in SortKeys :
                      opts = Options(1, Some(key), DEFAULT_CACHE_TIMEOUT, FALSE, Some(TRUE), Lenient)
                /\ tasks = <<>>
                /\ permits = 0
                /\ rates = EmptyMap
                /\ hist = [Hist0 EXCEPT !.filters = 1]
             \/ /\ pc = "rated"
                /\ opts = Options(1, Some("rate"), DEFAULT_CACHE_TIMEOUT, FALSE, Some(TRUE), Lenient)
                /\ \E map \in RateMaps(urls) :
                      /\ rates = map
                      /\ tasks = JoinedTasks(map, urls)
                /\ permits = semaphore_new(1)
                /\ hist = [Hist0 EXCEPT !.filters = 1, !.probes = Len(urls)]

NextSort ==
    \/ SortByAge
    \/ SortByCountry
    \/ SortByScore
    \/ SortByDelay
    \/ SortByRate

SpecSort == InitSort /\ [][NextSort]_vars

-----------------------------------------------------------------------------
(* Claims about sort_status, checked under SpecSort.                       *)
Sorted(key) == pc = "sorted" /\ opts.sort = Some(key)
Rated(m) == m.url \in DOMAIN rates

C16_ScoreSortBestFirst ==
    Sorted("score") =>
        \A i, j \in 1..Len(status.urls) :
            i < j =>
                LET a == status.urls[i].score
                    b == status.urls[j].score
                IN  /\ ~(IsNone(a) /\ IsSome(b))
                    /\ (IsSome(a) /\ IsSome(b)) => Unwrap(a) <= Unwrap(b)

\* C17: sorted by delay, a mirror of a smaller delay comes before a mirror of a larger
\* one, and every mirror without a delay after every mirror with one.
C17_DelaySortSmallestFirst ==
    Sorted("delay") =>
        \A i, j \in 1..Len(status.urls) :
            i < j =>
                LET a == status.urls[i].delay
                    b == status.urls[j].delay
                IN  /\ ~(IsNone(a) /\ IsSome(b))
                    /\ (IsSome(a) /\ IsSome(b)) => Unwrap(a) <= Unwrap(b)

\* Metadata { when, origin, retrieved: when, last_check: when } (main.rs 297-302), when
\* being the clock read at main.rs 285, and one Server line for each mirror.
rendered(when, urls) ==
    [when |-> when, retrieved |-> when, last_check |-> when,
     servers |-> [i \in 1..Len(urls) |-> urls[i].url]]

\* format_output to the --save file or to stdout; the write may fail (main.rs 304-309).
FormatOutput(ok) ==
    /\ pc = "sorted"
    /\ hist' = [hist EXCEPT !.outputs = @ + 1]
    /\ IF ok
       THEN /\ output' = Some(rendered(Unwrap(getRes.pre).clock, status.urls))
            /\ pc' = "done"
       ELSE /\ output' = None
            /\ pc' = "failed"
    /\ UNCHANGED <<cacheVars, opts, status, fetched, rateVars>>

\* The cache files a run may find: none, a fresh one, a stale one, a fresh one that
\* does not deserialize.
RunCaches ==
    {NoCacheFile,
     CacheFile(TRUE, TRUE, Epoch, to_string_pretty(SnapA)),
     CacheFile(TRUE, TRUE, Epoch - 2 * DEFAULT_CACHE_TIMEOUT * Second, to_string_pretty(SnapOld)),
     CacheFile(TRUE, TRUE, Epoch, Garbage)}

\* The filters of a run: the defaults, every mirror that has synced, and the latter
\* with --number 1.
RunFilters == {NoFilters, Lenient, [Lenient EXCEPT !.number = Some(1)]}

Init ==
    /\ pc = "start"
    /\ now = Epoch
    /\ cache \in RunCaches
    /\ impl = "main"
    /\ \E t \in 0..MaxThreads, sort \in {None, Some("rate")} \cup {Some(key) : key \in SortKeys},
          lc \in BOOLEAN,
          path \in {None, Some(TRUE)}, f \in RunFilters :
          opts = Options(t, sort, DEFAULT_CACHE_TIMEOUT, lc, path, f)
    /\ getRes = NoCall
    /\ prevRes = NoCall
    /\ hist = Hist0
    /\ IdleRest

Next ==
    \/ \E resp \in NetResponses, wr \in WriteOutcomes : GetMirrorStatus(resp, wr)
    \/ ListCountries
    \/ FilterStatus
    \/ SortNone
    \/ SortByAge
    \/ SortByCountry
    \/ SortByScore
    \/ SortByDelay
    \/ RateStart
    \/ Spawn
    \/ \E i \in TaskIds : Acquire(i)
    \/ \E i \in TaskIds, n \in ContentLengths, ms \in ElapsedMillis : ProbeOk(i, n, ms)
    \/ \E i \in TaskIds, cause \in {"tempdir", "join", "spawn", "wait", "exit", "metadata",
                                    "send", "bytes"} : ProbeErr(i, cause)
    \/ \E i \in TaskIds : ProbePanic(i)
    \/ JoinNext
    \/ RateReturn
    \/ SortByRate
    \/ \E ok \in BOOLEAN : FormatOutput(ok)

Spec == Init /\ [][Next]_vars

-----------------------------------------------------------------------------
(* Claims about run, checked under Spec.                                   *)
Emitted == pc = "done" /\ IsSome(output)

\* C18: with --number n the list written holds at most n mirrors, whatever the other
\* filters and the sort key are.
C18_AtMostNumberMirrors ==
    (Emitted /\ IsSome(opts.filters.number)) =>
        Len(Unwrap(output).servers) <= Unwrap(opts.filters.number)

\* The mirrors filter_status left of the fetched snapshot.
Survivors == vec_retain(fetched, opts.filters, now)

\* C23: in a run, probes are started only under --sort rate and only once filter_status
\* is done; the list probed is the list of the mirrors the filter left, one probe for
\* each of its mirrors and none after that, whatever the probes gave.
C23_OneProbePerSurvivor ==
    /\ hist.filters <= 1
    /\ hist.probes = Len(tasks)
    /\ hist.probes > 0 => (opts.sort = Some("rate") /\ hist.filters = 1)
    /\ Len(tasks) <= Len(Survivors)
    /\ pc \in {"spawning", "joining", "rated"} => status.urls = Survivors
    /\ (\/ pc \in {"joining", "rated"}
        \/ pc \in {"sorted", "done"} /\ opts.sort = Some("rate") /\ ~opts.list_countries)
          => Len(tasks) = Len(Survivors)
    /\ opts.list_countries => hist.probes = 0

\* A run under --sort rate has written its list: of three mirrors fetched the filter
\* left two, each was probed once, and the probe of one failed.
C23_Witness ==
    /\ pc = "done"
    /\ opts.sort = Some("rate")
    /\ Len(fetched) = 3
    /\ Len(Survivors) = 2
    /\ hist.probes = 2
    /\ \E i \in TaskIds : tasks[i].st = "joined" /\ Unwrap(tasks[i].res) = Err
    /\ IsSome(output)

\* C19: the output gives as Last Check the last_check of the snapshot, and as
\* Retrieved the time the snapshot was retrieved: the modification time of the cache
\* file when the snapshot was read from it, the time of the fetch otherwise.
C19_ProvenanceFromSnapshot ==
    Emitted =>
        /\ Unwrap(output).last_check = status.last_check
        /\ Unwrap(output).retrieved = IF getRes.net THEN Pre.clock ELSE Pre.file.mtime


\* C7: when get_mirror_status asked the network and the fetch failed (a network error,
\* or a body that does not deserialize), it returns an error, not the content of the
\* cache file, and the run stops there: nothing is filtered, probed or written.
C7_FailedRefetchAborts ==
    (HasCall /\ getRes.net /\ http_get_json(Unwrap(getRes.resp)).kind # "ok") =>
        /\ getRes.res = Err
        /\ pc = "failed"
        /\ status = EmptyStatus
        /\ hist.filters = 0
        /\ hist.probes = 0
        /\ hist.outputs = 0
        /\ output = None

\* A stale cache file that still deserializes, and a response that does not.
C7_Witness ==
    /\ HasCall /\ WithPath
    /\ Pre.file.content = to_string_pretty(SnapOld)
    /\ cache = Pre.file
    /\ getRes.resp = Some(Garbage)
    /\ pc = "failed"

====
